---------------------------- MODULE Spec2Model ----------------------------
(***************************************************************************)
(* The shopping cart of e-plantShopping: the CartItem component            *)
(* (src/src/CartItem.jsx, the complete second variant, lines 199-392) and  *)
(* the cart store it dispatches to (./CartSlice, imported at line 204).    *)
(*                                                                         *)
(* CartSlice is not among the sources; its three transitions (add,         *)
(* updateQuantity, removeItem) are written here from spec.md section 4.1.  *)
(*                                                                         *)
(* A Line Item is [name, cost, quantity]; image and description are opaque *)
(* to every operation below and are left out.  A cost is the sequence of   *)
(* its characters, so that substring(1) and parseFloat are computed.       *)
(* A JavaScript number is [kind |-> "num", v |-> thousandths of a unit] or *)
(* [kind |-> "NaN", v |-> 0]; a toFixed(2) string is                       *)
(* [kind |-> "str", cents |-> hundredths] or [kind |-> "NaN", cents |-> 0].*)
(***************************************************************************)
EXTENDS Integers, Sequences, FiniteSets

VARIABLES
    items,        \* state.cart.items: the store's Line Items, in order
    cart,         \* const cart = useSelector(...): the snapshot of the last render
    totalAmount,  \* what the last render showed for calculateTotalAmount()
    lineTotals,   \* what the last render showed for calculateTotalCost(item), per row
    pending,      \* events dispatched since the last render
    last          \* the last event: [op, name, quantity, again]

vars == <<items, cart, totalAmount, lineTotals, pending, last>>

\* ------------------------------------------------------------------ bounds

MaxQuantity == 2

MaxItems == 2

MaxPending == 2

\* ------------------------------------------------------------- line items

\* The product descriptors the product list hands to add: whole prices and a
\* price with cents.
Plants ==
    { [name |-> "Fern", cost |-> <<"$", "1", "5">>],
      [name |-> "Moss", cost |-> <<"$", "8", ".", "5", "0">>],
      [name |-> "Ivy",  cost |-> <<"$", "1", "2">>] }

\* Descriptors over the shapes a cost string can take: a whole price, a price
\* with cents, two prices with a third decimal, and a cost with no numeric
\* part.
PriceCases ==
    { [name |-> "Fern", cost |-> <<"$", "1", "5">>],
      [name |-> "Moss", cost |-> <<"$", "8", ".", "5", "0">>],
      [name |-> "Sage", cost |-> <<"$", "2", ".", "5", "0", "4">>],
      [name |-> "Lily", cost |-> <<"$", "8", ".", "5", "0", "4">>],
      [name |-> "Rose", cost |-> <<"$", "a", "b", "c">>] }

Names(catalog) == { it.name : it \in catalog }

Present(list, name) == \E i \in DOMAIN list : list[i].name = name

IndexOf(list, name) == CHOOSE i \in DOMAIN list : list[i].name = name

QuantityOf(list, name) == list[IndexOf(list, name)].quantity

\* ------------------------------------------------ the cart store (CartSlice)

\* remove(name): the matching Line Item is filtered out; an absent name
\* changes nothing.
removeItem(list, name) == SelectSeq(list, LAMBDA x : x.name # name)

\* The store with its guard against a quantity below 1 left out.
updateQuantityUnguarded(list, name, quantity) ==
    IF ~Present(list, name)
      THEN list
      ELSE [list EXCEPT ![IndexOf(list, name)].quantity = quantity]

\* setQuantity(name, quantity): an absent name is a no-op, a quantity below 1
\* is a removal, otherwise the item's quantity is replaced in place.
updateQuantity(list, name, quantity) ==
    IF ~Present(list, name)
      THEN list
      ELSE IF quantity < 1
             THEN removeItem(list, name)
             ELSE [list EXCEPT ![IndexOf(list, name)].quantity = quantity]

\* An add that appends a new Line Item whether or not the name is present.
addAlwaysAppends(list, item) ==
    Append(list, [name |-> item.name, cost |-> item.cost, quantity |-> 1])

\* add(item): a present name has its quantity raised by 1, an absent one is
\* appended with quantity 1.
add(list, item) ==
    IF Present(list, item.name)
      THEN [list EXCEPT ![IndexOf(list, item.name)].quantity = @ + 1]
      ELSE Append(list, [name |-> item.name, cost |-> item.cost, quantity |-> 1])

\* --------------------------------------------------- numbers and strings

NaN == [kind |-> "NaN", v |-> 0]

Num(v) == [kind |-> "num", v |-> v]

Digits == <<"0", "1", "2", "3", "4", "5", "6", "7", "8", "9">>

IsDigit(c) == \E i \in DOMAIN Digits : Digits[i] = c

DigitValue(c) == (CHOOSE i \in DOMAIN Digits : Digits[i] = c) - 1

\* The longest prefix of s made of digits.
RECURSIVE TakeDigits(_)
TakeDigits(s) ==
    IF s = <<>> \/ ~IsDigit(Head(s))
      THEN <<>>
      ELSE <<Head(s)>> \o TakeDigits(Tail(s))

\* The value of a digit string read as a whole number.
RECURSIVE DecimalValue(_)
DecimalValue(ds) ==
    IF ds = <<>>
      THEN 0
      ELSE 10 * DecimalValue(SubSeq(ds, 1, Len(ds) - 1)) + DigitValue(ds[Len(ds)])

\* The value, in thousandths, of the digits after the decimal point (a
\* fourth and later digit is below the resolution of the model; the Catalog
\* has none).
Thousandths(ds) ==
    LET d(i) == IF i <= Len(ds) THEN DigitValue(ds[i]) ELSE 0
    IN  100 * d(1) + 10 * d(2) + d(3)

\* String.prototype.substring(1): the string without its first character.
substring1(s) == IF s = <<>> THEN <<>> ELSE Tail(s)

\* parseFloat on strings of digits, "." and letters: the longest leading
\* decimal literal, NaN when there is none.
parseFloat(s) ==
    LET ip   == TakeDigits(s)
        rest == SubSeq(s, Len(ip) + 1, Len(s))
        fp   == IF rest # <<>> /\ Head(rest) = "."
                  THEN TakeDigits(Tail(rest))
                  ELSE <<>>
    IN  IF ip = <<>> /\ fp = <<>>
          THEN NaN
          ELSE Num(1000 * DecimalValue(ip) + Thousandths(fp))

\* x * n for a number x and a quantity n.
Times(x, n) == IF x.kind = "NaN" THEN NaN ELSE Num(x.v * n)

\* x + y.
Plus(x, y) == IF x.kind = "NaN" \/ y.kind = "NaN" THEN NaN ELSE Num(x.v + y.v)

\* Number.prototype.toFixed(2): rounded to hundredths, "NaN" for NaN.
toFixed2(x) ==
    IF x.kind = "NaN"
      THEN [kind |-> "NaN", cents |-> 0]
      ELSE [kind |-> "str", cents |-> (x.v + 5) \div 10]

\* ------------------------------------------------------- derived totals

\* const price = parseFloat(item.cost.substring(1));
priceOf(item) == parseFloat(substring1(item.cost))

\* cart.reduce((accumulator, item) => accumulator + price * item.quantity, 0)
RECURSIVE reduceTotal(_, _)
reduceTotal(list, accumulator) ==
    IF list = <<>>
      THEN accumulator
      ELSE reduceTotal(Tail(list),
                       Plus(accumulator, Times(priceOf(Head(list)), Head(list).quantity)))

calculateTotalAmount(list) == toFixed2(reduceTotal(list, Num(0)))

\* A line total that leaves the quantity out.
calculateTotalCostUnitPrice(item) == toFixed2(priceOf(item))

calculateTotalCost(item) == toFixed2(Times(priceOf(item), item.quantity))

\* ----------------------------------------------------- the event handlers

\* An increment that inserts the item when the store no longer has it.
handleIncrementUpsert(list, item) ==
    IF Present(list, item.name)
      THEN updateQuantity(list, item.name, item.quantity + 1)
      ELSE Append(list, [item EXCEPT !.quantity = item.quantity + 1])

handleIncrement(list, item) ==
    updateQuantity(list, item.name, item.quantity + 1)

\* A decrement that writes quantity - 1 into the item itself, whatever it is.
handleDecrementInPlace(list, item) ==
    updateQuantityUnguarded(list, item.name, item.quantity - 1)

\* A decrement whose test is off by one.
handleDecrementOffByOne(list, item) ==
    IF item.quantity > 2
      THEN updateQuantity(list, item.name, item.quantity - 1)
      ELSE removeItem(list, item.name)

handleDecrement(list, item) ==
    IF item.quantity > 1
      THEN updateQuantity(list, item.name, item.quantity - 1)
      ELSE removeItem(list, item.name)

\* A delete whose filter is inverted: only the named row is kept.
handleRemoveKeepsNamed(list, item) == SelectSeq(list, LAMBDA x : x.name = item.name)

\* A delete that drops the first row instead of the named one.
handleRemoveFirst(list, item) == IF list = <<>> THEN list ELSE Tail(list)

handleRemove(list, item) == removeItem(list, item.name)

\* --------------------------------------------------------- the behaviour

NoEvent == [op |-> "none", name |-> "", quantity |-> 0, again |-> FALSE]

\* The component as first rendered over an empty store.
Init ==
    /\ items = <<>>
    /\ cart = <<>>
    /\ totalAmount = calculateTotalAmount(<<>>)
    /\ lineTotals = <<>>
    /\ pending = 0
    /\ last = NoEvent

\* dispatch(action): the store's items are replaced synchronously; the
\* component keeps the snapshot of its last render until it renders again.
Dispatch(op, name, quantity, new) ==
    /\ pending < MaxPending
    /\ items' = new
    /\ last' = [op |-> op, name |-> name, quantity |-> quantity,
                again |-> (last.op = op /\ last.name = name)]
    /\ pending' = pending + 1
    /\ UNCHANGED <<cart, totalAmount, lineTotals>>

\* add(item), called by the product list with a descriptor of its catalog.
Add(catalog) ==
    \E it \in catalog :
        /\ IF Present(items, it.name)
             THEN QuantityOf(items, it.name) < MaxQuantity
             ELSE Len(items) < MaxItems
        /\ Dispatch("add", it.name, 1, add(items, it))

\* setQuantity(name, quantity), called on the store directly.
SetQuantity(catalog) ==
    \E n \in Names(catalog), q \in -1 .. MaxQuantity :
        Dispatch("setQuantity", n, q, updateQuantity(items, n, q))

\* remove(name), called on the store directly.
Remove(catalog) ==
    \E n \in Names(catalog) :
        Dispatch("remove", n, 0, removeItem(items, n))

\* onClick={() => handleIncrement(item)} on a row of the last render.
HandleIncrement ==
    \E i \in DOMAIN cart :
        /\ cart[i].quantity < MaxQuantity
        /\ Dispatch("increment", cart[i].name, cart[i].quantity,
                    handleIncrement(items, cart[i]))

\* onClick={() => handleDecrement(item)} on a row of the last render.
HandleDecrement ==
    \E i \in DOMAIN cart :
        Dispatch("decrement", cart[i].name, cart[i].quantity,
                 handleDecrement(items, cart[i]))

\* onClick={() => handleRemove(item)} on a row of the last render.
HandleRemove ==
    \E i \in DOMAIN cart :
        Dispatch("delete", cart[i].name, cart[i].quantity,
                 handleRemove(items, cart[i]))

\* The component renders again after a dispatch: useSelector reads the
\* store's items, and the JSX computes the total and every row's subtotal.
Render ==
    /\ pending > 0
    /\ cart' = items
    /\ totalAmount' = calculateTotalAmount(items)
    /\ lineTotals' = [i \in DOMAIN items |-> calculateTotalCost(items[i])]
    /\ pending' = 0
    /\ UNCHANGED <<items, last>>

Next ==
    \/ Add(Plants)
    \/ SetQuantity(Plants)
    \/ Remove(Plants)
    \/ HandleIncrement
    \/ HandleDecrement
    \/ HandleRemove
    \/ Render

Spec == Init /\ [][Next]_vars

\* The schedule in which the component has rendered again before the next
\* event is handled (user action -> transition -> re-read -> re-render), over
\* the price cases.
Rendered == pending = 0

NextRendered ==
    \/ Rendered /\ Add(PriceCases)
    \/ Rendered /\ HandleIncrement
    \/ Rendered /\ HandleDecrement
    \/ Rendered /\ HandleRemove
    \/ Render

SpecRendered == Init /\ [][NextRendered]_vars

\* ------------------------------------------------------------ the claims

\* The step is a dispatch of an event of kind op.
Dispatched(op) == pending' = pending + 1 /\ last'.op = op

\* list without the Line Item called name, the others in their order.
Without(list, name) == SelectSeq(list, LAMBDA x : x.name # name)

\* C1: every Line Item of the store, and of the snapshot, has quantity >= 1
\* after any sequence of add, setQuantity, remove, increment, decrement and
\* delete from the empty cart; none is kept with quantity 0.
QuantityAtLeastOne ==
    /\ \A i \in DOMAIN items : items[i].quantity >= 1
    /\ \A i \in DOMAIN cart : cart[i].quantity >= 1

\* A decrement of a row rendered with quantity 1 has removed the item.
DecrementRemovedItem ==
    /\ pending = 1
    /\ last.op = "decrement"
    /\ last.quantity = 1
    /\ Present(cart, last.name)
    /\ ~Present(items, last.name)

\* C2: the store never holds two Line Items with the same name.
NamesUnique ==
    \A i, j \in DOMAIN items : items[i].name = items[j].name => i = j

\* An add of a name already present has raised its quantity by 1.
AddedPresentName ==
    /\ pending = 1
    /\ last.op = "add"
    /\ Present(cart, last.name)
    /\ Present(items, last.name)
    /\ QuantityOf(items, last.name) = QuantityOf(cart, last.name) + 1
    /\ Len(items) = Len(cart)

\* C3: setQuantity(name, q) with q < 1 on a present item leaves the store as
\* remove(name) would, with no quantity below 1 stored.
SetQuantityBelowOneRemoves ==
    [][(/\ Dispatched("setQuantity")
        /\ last'.quantity < 1
        /\ Present(items, last'.name))
       => /\ items' = Without(items, last'.name)
          /\ \A i \in DOMAIN items' : items'[i].quantity >= 1]_vars

\* A setQuantity below 1 has removed an item the last render showed.
SetQuantityZeroRemoved ==
    /\ pending = 1
    /\ last.op = "setQuantity"
    /\ last.quantity < 1
    /\ Present(cart, last.name)
    /\ items = Without(cart, last.name)

\* C4: setQuantity, remove, increment, decrement and delete for a name the
\* store does not hold leave the store's items, quantities and order as they
\* are; a removed item is not created again.
AbsentNameNoOp ==
    [][(/\ pending' = pending + 1
        /\ last'.op \in {"setQuantity", "remove", "increment", "decrement", "delete"}
        /\ ~Present(items, last'.name))
       => items' = items]_vars

\* The last of two events since the render was an increment of a row the
\* snapshot still shows; the first had removed the item, and it is still gone.
StaleIncrementOnRemoved ==
    /\ pending = 2
    /\ last.op = "increment"
    /\ Present(cart, last.name)
    /\ ~Present(items, last.name)

\* The step is an add of name; removing name right after it, as the delete
\* handler dispatches it, gives back the items the add started from.
AddThenRemoveRestores(name) ==
    LET added == items'[IndexOf(items', name)]
    IN  handleRemove(items', added) = items

\* C5 as stated: add(item) followed immediately by remove(item.name) restores
\* the store to its state before the add, for every cart and every item.
RoundTrip ==
    [][Dispatched("add") => AddThenRemoveRestores(last'.name)]_vars

\* C5 as amended: add(item) followed immediately by remove(item.name)
\* restores the store to its state before the add when item.name was not in
\* the cart.
RoundTripAbsent ==
    [][(Dispatched("add") /\ ~Present(items, last'.name))
       => AddThenRemoveRestores(last'.name)]_vars

\* A new name has been added to a cart that held another item, and removing
\* it gives the rendered cart back.
AddedAbsentName ==
    /\ pending = 1
    /\ last.op = "add"
    /\ cart # <<>>
    /\ ~Present(cart, last.name)
    /\ Present(items, last.name)
    /\ Without(items, last.name) = cart

\* C6: a remove (or delete) of the name the previous event removed changes
\* nothing.
RemoveIdempotent ==
    [][(/\ pending' = pending + 1
        /\ last.op \in {"remove", "delete"}
        /\ last'.op \in {"remove", "delete"}
        /\ last'.name = last.name)
       => items' = items]_vars

\* Two deletes in a row of the same rendered row: the item is gone.
DeletedTwice ==
    /\ pending = 2
    /\ last.op = "delete"
    /\ last.again
    /\ Len(cart) = 2
    /\ items = Without(cart, last.name)

\* The number a toFixed(2) string reads back as.
NumberOf(str) == IF str.kind = "NaN" THEN NaN ELSE Num(10 * str.cents)

\* The sum of the rendered line totals, each read back as a number.
RECURSIVE SumOfLines(_)
SumOfLines(lines) ==
    IF lines = <<>>
      THEN Num(0)
      ELSE Plus(NumberOf(Head(lines)), SumOfLines(Tail(lines)))

\* Every cost of the list that parses has at most two decimal places.
WholeCents(list) ==
    \A i \in DOMAIN list :
        priceOf(list[i]).kind = "num" => priceOf(list[i]).v % 10 = 0

\* C7 as stated: in every rendered cart the total shown equals the sum of
\* the line totals shown.
TotalIsSumOfLines == totalAmount = toFixed2(SumOfLines(lineTotals))

\* C7 as amended: the total shown equals the sum of the line totals shown
\* when every cost has at most two decimal places.
TotalIsSumOfLinesWholeCents ==
    WholeCents(cart) => totalAmount = toFixed2(SumOfLines(lineTotals))

\* Two Fern at $15 and one Moss at $8.50 are rendered with the total 38.50.
RenderedTwoLines ==
    /\ pending = 0
    /\ Len(cart) = 2
    /\ \E i \in DOMAIN cart : cart[i].name = "Fern" /\ cart[i].quantity = 2
    /\ \E i \in DOMAIN cart : cart[i].name = "Moss" /\ cart[i].quantity = 1
    /\ lineTotals = [i \in DOMAIN cart |-> calculateTotalCost(cart[i])]
    /\ totalAmount = [kind |-> "str", cents |-> 3850]

\* C8: a cost that does not parse to a number makes the line total and the
\* total of the render a MalformedPriceError, never NaN or zero.
MalformedPriceSurfaced ==
    \A i \in DOMAIN cart :
        (i \in DOMAIN lineTotals /\ priceOf(cart[i]).kind = "NaN")
            => /\ lineTotals[i].kind = "MalformedPriceError"
               /\ totalAmount.kind = "MalformedPriceError"

\* C9: an increment sets the item to the rendered quantity + 1, a decrement of
\* a rendered quantity above 1 to the rendered quantity - 1, a decrement of a
\* rendered quantity of 1 removes it; every other Line Item and the order of
\* the items that remain are unchanged.
IncrementDecrementFrame ==
    [][(pending' = pending + 1 /\ last'.op \in {"increment", "decrement"})
       => LET n == last'.name
              q == last'.quantity
              to == IF last'.op = "increment" THEN q + 1 ELSE q - 1
          IN  /\ Without(items', n) = Without(items, n)
              /\ (Present(items, n) /\ to >= 1)
                    => items' = [items EXCEPT ![IndexOf(items, n)].quantity = to]
              /\ to < 1 => ~Present(items', n)]_vars

\* A decrement of a row rendered with quantity 2, beside another item.
DecrementedBesideAnother ==
    /\ pending = 1
    /\ last.op = "decrement"
    /\ last.quantity = 2
    /\ Len(items) = 2
    /\ Present(items, last.name)
    /\ QuantityOf(items, last.name) = 1

====
